---- MODULE Spec2Model ----
(***************************************************************************)
(* Model of scripts/odoo-bulk-unreserve.py: a script pasted into an Odoo   *)
(* shell.  It selects stuck stock moves, prints a Before snapshot of the   *)
(* first 20 affected products, releases the reservations of the moves'     *)
(* pickings in batches of 100, commits, and prints an After report.        *)
(*                                                                         *)
(* The ERP (env) is the script's environment.  Its records are modelled as *)
(* sequences indexed by record id; `moves' and `quants' are the view of    *)
(* the open transaction (env.cr), `db' is what has been committed.         *)
(* Quantities are integral units; dates are day numbers yyyymmdd.          *)
(***************************************************************************)
EXTENDS Integers, Sequences, FiniteSets, TLC

VARIABLES
  DO_UNRESERVE,   \* the execute flag (line 63)
  fail_at,        \* environment: number of the batch whose release raises (0 = none)
  moves,          \* stock.move records as seen by the transaction
  quants,         \* stock.quant records as seen by the transaction
  db,             \* committed ERP state [moves, quants]
  db0,            \* history: the committed ERP state when the run started
  pc,             \* position of the script
  stuck_moves,    \* line 11: ids of the selected moves, in search order
  products,       \* line 20: ids of the affected products
  before_state,   \* line 34: dict, in insertion order, one entry per reported product
  pickings,       \* line 67: ids of the pickings to release
  total,          \* line 72
  i,              \* line 73: start offset of the next batch
  released,       \* history: the recordsets do_unreserve() was invoked on
  progress,       \* history: the "Processed X/total" values printed
  after_report,   \* the rows printed by STEP 4
  log             \* history: the order of the script's external effects

vars == <<DO_UNRESERVE, fail_at, moves, quants, db, db0, pc, stuck_moves,
          products, before_state, pickings, total, i, released, progress,
          after_report, log>>

(***************************************************************************)
(* Program constants                                                       *)
(***************************************************************************)
cutoff_date == 20240101
batch_size == 100
top_n == 20
AllowedStates == <<"assigned", "confirmed", "waiting", "partially_available">>

(***************************************************************************)
(* Bounds of the model                                                     *)
(***************************************************************************)
MaxBulk == 199
BulkProducts == 19
MaxFailAt == 2

Min(a, b) == IF a < b THEN a ELSE b
Range(s) == {s[k] : k \in 1..Len(s)}

(***************************************************************************)
(* ORM primitives                                                          *)
(***************************************************************************)
\* F applied to the value of x, x being evaluated once
With(x, F(_)) == CHOOSE r \in {F(v) : v \in {x}} : TRUE

\* the positions of vals that hold a non-empty value (0 = False) for the first time
FirstPositions(vals) ==
  SelectSeq([k \in 1..Len(vals) |-> k],
            LAMBDA k : vals[k] # 0 /\ \A j \in 1..(k - 1) : vals[j] # vals[k])

\* variant: mapped() keeping the duplicates
MappedWithDuplicates(vals) == SelectSeq(vals, LAMBDA x : x # 0)

\* recordset.mapped(relational field): the related records in order of first
\* appearance, without duplicates and without the empty value.
Mapped(vals) ==
  With(vals, LAMBDA v :
    With(FirstPositions(v), LAMBDA keep : [k \in 1..Len(keep) |-> v[keep[k]]]))

\* sum(recordset.mapped(numeric field))
RECURSIVE Sum(_)
Sum(s) == IF s = <<>> THEN 0 ELSE Head(s) + Sum(Tail(s))

\* variant: a slice one element too long
SliceOneMore(s, a, b) == SubSeq(s, a + 1, Min(b + 1, Len(s)))

\* Python slice s[a:b] with 0 <= a
Slice(s, a, b) == SubSeq(s, a + 1, Min(b, Len(s)))

\* variant: the cutoff day itself is selected ('<=' for '<')
SearchStuckMovesInclusive(mv) ==
  LET idx == [k \in 1..Len(mv) |-> k]
  IN  SelectSeq(idx, LAMBDA m : /\ mv[m].state \in Range(AllowedStates)
                                /\ mv[m].date <= cutoff_date
                                /\ mv[m].sale_line_id # 0)

\* env['stock.move'].search(domain of lines 12-14): ids in id order
SearchStuckMoves(mv) ==
  LET idx == [k \in 1..Len(mv) |-> k]
  IN  SelectSeq(idx, LAMBDA m : /\ mv[m].state \in Range(AllowedStates)
                                /\ mv[m].date < cutoff_date
                                /\ mv[m].sale_line_id # 0)

\* variant: the quants of every location
SearchQuantsAnyLocation(qs, p) ==
  SelectSeq(qs, LAMBDA q : q.product_id = p)

\* env['stock.quant'].search([product_id = p, location_id.usage = 'internal'])
SearchQuants(qs, p) ==
  SelectSeq(qs, LAMBDA q : q.product_id = p /\ q.usage = "internal")

\* lines 36-51: the entry recorded for one product
SnapshotOf(qs, mv, stuck, p) ==
  LET found    == SearchQuants(qs, p)
      on_hand  == Sum([k \in 1..Len(found) |-> found[k].quantity])
      reserved == Sum([k \in 1..Len(found) |-> found[k].reserved_quantity])
  IN  [prod_id     |-> p,
       on_hand     |-> on_hand,
       reserved    |-> reserved,
       available   |-> on_hand - reserved,
       stuck_moves |-> Len(SelectSeq(stuck, LAMBDA m : mv[m].product_id = p))]

\* variant: the delta with its operands swapped
DeltaRowSwapped(qs, before) ==
  LET found     == SelectSeq(qs, LAMBDA q : q.product_id = before.prod_id /\ q.usage = "internal")
      on_hand   == Sum([k \in 1..Len(found) |-> found[k].quantity])
      reserved  == Sum([k \in 1..Len(found) |-> found[k].reserved_quantity])
      available == on_hand - reserved
  IN  [prod_id   |-> before.prod_id,
       on_hand   |-> on_hand,
       reserved  |-> reserved,
       available |-> available,
       delta     |-> before.available - available]

\* lines 92-101: the row printed for one entry of before_state
DeltaRow(qs, before) ==
  LET found     == SearchQuants(qs, before.prod_id)
      on_hand   == Sum([k \in 1..Len(found) |-> found[k].quantity])
      reserved  == Sum([k \in 1..Len(found) |-> found[k].reserved_quantity])
      available == on_hand - reserved
  IN  [prod_id   |-> before.prod_id,
       on_hand   |-> on_hand,
       reserved  |-> reserved,
       available |-> available,
       delta     |-> available - before.available]

(***************************************************************************)
(* The ERP's release action: picking.do_unreserve() drops the reservation  *)
(* of every move of the picking that is not done or cancelled, and gives   *)
(* the reserved quantity back to the quant it was taken from.              *)
(***************************************************************************)
Unreserved(mv, batch, m) ==
  /\ mv[m].picking_id \in Range(batch)
  /\ mv[m].state \notin {"done", "cancel"}

\* what the moves lo..hi released with the batch hold on quant q
RECURSIVE ReservedAt(_, _, _, _, _)
ReservedAt(mv, batch, q, lo, hi) ==
  IF lo > hi THEN 0
  ELSE IF lo = hi
       THEN (IF mv[lo].quant = q /\ Unreserved(mv, batch, lo) THEN mv[lo].reserved ELSE 0)
       ELSE LET mid == (lo + hi) \div 2
            IN  ReservedAt(mv, batch, q, lo, mid) + ReservedAt(mv, batch, q, mid + 1, hi)

MovesAfterUnreserve(mv, batch) ==
  [m \in 1..Len(mv) |->
     IF Unreserved(mv, batch, m) THEN [mv[m] EXCEPT !.reserved = 0] ELSE mv[m]]

QuantsAfterUnreserve(qs, mv, batch) ==
  [q \in 1..Len(qs) |->
     [qs[q] EXCEPT !.reserved_quantity = @ - ReservedAt(mv, batch, q, 1, Len(mv))]]

(***************************************************************************)
(* The ERP states a run starts from.  Move 1 and the last move vary in the *)
(* fields the script looks at; between them lie nb stuck moves, one        *)
(* picking each, spread over BulkProducts products.  Only assigned and     *)
(* partially available moves hold a reservation.                           *)
(***************************************************************************)
MoveStates == Range(AllowedStates) \cup {"done", "draft"}
Dates == {20231231, cutoff_date, 20240102}
Usages == {"internal", "customer"}
NumProducts == 2 + BulkProducts

HoldsReservation(st) == st \in {"assigned", "partially_available"}

FirstMove(st, d, sl) ==
  [state |-> st, date |-> d, sale_line_id |-> sl, product_id |-> 1,
   picking_id |-> 1, reserved |-> IF HoldsReservation(st) THEN 1 ELSE 0,
   quant |-> 1]

LastMove(sl, p, pk) ==
  [state |-> "partially_available", date |-> 20231231, sale_line_id |-> sl,
   product_id |-> p, picking_id |-> pk, reserved |-> 2, quant |-> p]

BulkMove(j) ==
  [state |-> "assigned", date |-> 20231231, sale_line_id |-> 10 + j,
   product_id |-> 3 + ((j - 1) % BulkProducts), picking_id |-> 2 + j,
   reserved |-> 1, quant |-> 3 + ((j - 1) % BulkProducts)]

\* what the moves lo..hi hold on quant q
RECURSIVE HeldOn(_, _, _, _)
HeldOn(mv, q, lo, hi) ==
  IF lo > hi THEN 0
  ELSE IF lo = hi
       THEN (IF mv[lo].quant = q THEN mv[lo].reserved ELSE 0)
       ELSE LET mid == (lo + hi) \div 2
            IN  HeldOn(mv, q, lo, mid) + HeldOn(mv, q, mid + 1, hi)

MoveTable(a, b, nb) ==
  [k \in 1..(nb + 2) |-> IF k = 1 THEN a ELSE IF k = nb + 2 THEN b ELSE BulkMove(k - 1)]

\* one quant per product (that of product 2 in a location of usage u2), its
\* reserved quantity being what the moves hold on it, and a further quant of
\* product 1 in a location of usage u1
QuantTable(mv, u1, u2) ==
  [q \in 1..(NumProducts + 1) |->
     IF q = NumProducts + 1
     THEN [product_id |-> 1, usage |-> u1, quantity |-> 5, reserved_quantity |-> 3]
     ELSE LET r == HeldOn(mv, q, 1, Len(mv))
          IN  [product_id |-> q, usage |-> IF q = 2 THEN u2 ELSE "internal",
               quantity |-> r + 3, reserved_quantity |-> r]]

InitScript ==
  /\ pc = "Selecting"
  /\ stuck_moves = <<>>
  /\ products = <<>>
  /\ before_state = <<>>
  /\ pickings = <<>>
  /\ total = 0
  /\ i = 0
  /\ released = <<>>
  /\ progress = <<>>
  /\ after_report = <<>>
  /\ log = <<>>

InitERP(a, b, nb, usages) ==
  /\ moves = MoveTable(a, b, nb)
  /\ \E u1 \in usages, u2 \in usages : quants = QuantTable(moves, u1, u2)
  /\ db = [moves |-> moves, quants |-> quants]
  /\ db0 = db
  /\ DO_UNRESERVE \in BOOLEAN
  /\ fail_at \in IF DO_UNRESERVE THEN 0..MaxFailAt ELSE {0}

\* few moves, every combination of the fields the Selector reads
InitSmall ==
  \E st \in MoveStates, d \in Dates, sl \in {0, 7}, bsl \in {0, 8},
     p \in {1, 2}, pk \in {0, 1, 2} :
       InitERP(FirstMove(st, d, sl), LastMove(bsl, p, pk), 0, Usages)

\* many moves, all quants in internal locations: the picking count lies around
\* the multiples of batch_size and the product count around top_n
InitBulk ==
  \E d \in {20231231, cutoff_date}, bsl \in {0, 8}, p \in {1, 2}, pk \in {0, 1, 2},
     nb \in {batch_size - 1, MaxBulk} :
       InitERP(FirstMove("assigned", d, 7), LastMove(bsl, p, pk), nb, {"internal"})

Init == InitScript /\ (InitSmall \/ InitBulk)

(***************************************************************************)
(* The script, one action per step                                         *)
(***************************************************************************)
\* STEP 1, lines 11-20
Selector ==
  /\ pc = "Selecting"
  /\ \E found \in {SearchStuckMoves(moves)} :
         /\ stuck_moves' = found
         /\ products' = Mapped([k \in 1..Len(found) |-> moves[found[k]].product_id])
  /\ pc' = "Snapshotting"
  /\ log' = Append(log, "select")
  /\ UNCHANGED <<DO_UNRESERVE, fail_at, moves, quants, db, db0, before_state,
                 pickings, total, i, released, progress, after_report>>

\* STEP 2, lines 28-57
SnapshotReporter ==
  /\ pc = "Snapshotting"
  /\ LET shown == Slice(products, 0, top_n)
     IN  before_state' = [k \in 1..Len(shown) |->
                            SnapshotOf(quants, moves, stuck_moves, shown[k])]
  /\ pc' = "ReportedBefore"
  /\ log' = Append(log, "before")
  /\ UNCHANGED <<DO_UNRESERVE, fail_at, moves, quants, db, db0, stuck_moves,
                 products, pickings, total, i, released, progress, after_report>>

\* lines 65, 104-106: the flag is false
SkipUnreserve ==
  /\ pc = "ReportedBefore"
  /\ ~DO_UNRESERVE
  /\ pc' = "AwaitingApproval"
  /\ log' = Append(log, "skip")
  /\ UNCHANGED <<DO_UNRESERVE, fail_at, moves, quants, db, db0, stuck_moves,
                 products, before_state, pickings, total, i, released, progress,
                 after_report>>

\* variant: the flag is not consulted
BeginUnreserveAlways ==
  /\ pc = "ReportedBefore"
  /\ \E mapped \in {Mapped([k \in 1..Len(stuck_moves) |-> moves[stuck_moves[k]].picking_id])} :
         /\ pickings' = mapped
         /\ total' = Len(mapped)
  /\ i' = 0
  /\ pc' = "Executing"
  /\ UNCHANGED <<DO_UNRESERVE, fail_at, moves, quants, db, db0, stuck_moves,
                 products, before_state, released, progress, after_report, log>>

\* lines 65-72: the flag is true
BeginUnreserve ==
  /\ pc = "ReportedBefore"
  /\ DO_UNRESERVE
  /\ \E mapped \in {Mapped([k \in 1..Len(stuck_moves) |-> moves[stuck_moves[k]].picking_id])} :
         /\ pickings' = mapped
         /\ total' = Len(mapped)
  /\ i' = 0
  /\ pc' = "Executing"
  /\ UNCHANGED <<DO_UNRESERVE, fail_at, moves, quants, db, db0, stuck_moves,
                 products, before_state, released, progress, after_report, log>>

\* lines 73-76: one iteration of the batch loop
ReleaseBatch ==
  /\ pc = "Executing"
  /\ i < total
  /\ (i \div batch_size) + 1 # fail_at
  /\ \E batch \in {Slice(pickings, i, i + batch_size)} :
         /\ moves' = MovesAfterUnreserve(moves, batch)
         /\ quants' = QuantsAfterUnreserve(quants, moves, batch)
         /\ released' = Append(released, batch)
  /\ progress' = Append(progress, Min(i + batch_size, total))
  /\ i' = i + batch_size
  /\ log' = Append(log, "release")
  /\ UNCHANGED <<DO_UNRESERVE, fail_at, db, db0, pc, stuck_moves, products,
                 before_state, pickings, total, after_report>>

\* variant: the exception is swallowed and the loop goes on
ReleaseFailsSwallowed ==
  /\ pc = "Executing"
  /\ i < total
  /\ (i \div batch_size) + 1 = fail_at
  /\ i' = i + batch_size
  /\ log' = Append(log, "error")
  /\ UNCHANGED <<DO_UNRESERVE, fail_at, moves, quants, db, db0, pc, stuck_moves,
                 products, before_state, pickings, total, released, progress,
                 after_report>>

\* line 75 raises: the exception leaves the if statement of line 65
ReleaseFails ==
  /\ pc = "Executing"
  /\ i < total
  /\ (i \div batch_size) + 1 = fail_at
  /\ pc' = "Halted"
  /\ log' = Append(log, "error")
  /\ UNCHANGED <<DO_UNRESERVE, fail_at, moves, quants, db, db0, stuck_moves,
                 products, before_state, pickings, total, i, released, progress,
                 after_report>>

\* variant: the commit does not wait for the end of the loop
CommitEarly ==
  /\ pc = "Executing"
  /\ db' = [moves |-> moves, quants |-> quants]
  /\ pc' = "Reporting"
  /\ log' = Append(log, "commit")
  /\ UNCHANGED <<DO_UNRESERVE, fail_at, moves, quants, db0, stuck_moves, products,
                 before_state, pickings, total, i, released, progress, after_report>>

\* line 78, after the loop
Commit ==
  /\ pc = "Executing"
  /\ i >= total
  /\ db' = [moves |-> moves, quants |-> quants]
  /\ pc' = "Reporting"
  /\ log' = Append(log, "commit")
  /\ UNCHANGED <<DO_UNRESERVE, fail_at, moves, quants, db0, stuck_moves, products,
                 before_state, pickings, total, i, released, progress, after_report>>

\* variant: the After report is printed in place of the commit
DeltaReporterWithoutCommit ==
  /\ pc = "Executing"
  /\ i >= total
  /\ after_report' = [k \in 1..Len(before_state) |-> DeltaRow(quants, before_state[k])]
  /\ pc' = "ReportedAfter"
  /\ log' = Append(log, "after")
  /\ UNCHANGED <<DO_UNRESERVE, fail_at, moves, quants, db, db0, stuck_moves,
                 products, before_state, pickings, total, i, released, progress>>

\* STEP 4, lines 85-103
DeltaReporter ==
  /\ pc = "Reporting"
  /\ after_report' = [k \in 1..Len(before_state) |-> DeltaRow(quants, before_state[k])]
  /\ pc' = "ReportedAfter"
  /\ log' = Append(log, "after")
  /\ UNCHANGED <<DO_UNRESERVE, fail_at, moves, quants, db, db0, stuck_moves,
                 products, before_state, pickings, total, i, released, progress>>

Next ==
  \/ Selector
  \/ SnapshotReporter
  \/ SkipUnreserve
  \/ BeginUnreserve
  \/ ReleaseBatch
  \/ ReleaseFails
  \/ Commit
  \/ DeltaReporter

Spec == Init /\ [][Next]_vars

\* the script is a single synchronous thread: it runs until it ends or raises
FairSpec == Spec /\ WF_vars(Next)

(***************************************************************************)
(* Vocabulary of the properties, stated over the ERP state the run started *)
(* from and independently of the operators above                           *)
(***************************************************************************)
StartMoves == db0.moves
StartQuants == db0.quants

\* the moves the Selector is specified to choose
Chosen ==
  {m \in 1..Len(StartMoves) :
     /\ StartMoves[m].state \in {"assigned", "confirmed", "waiting", "partially_available"}
     /\ StartMoves[m].date <= 20231231
     /\ StartMoves[m].sale_line_id # 0}

ChosenPickings == {StartMoves[m].picking_id : m \in Chosen} \ {0}
ChosenProducts == {StartMoves[m].product_id : m \in Chosen}

CeilDiv(n, d) == (n + d - 1) \div d

InternalQuants(qs, p) ==
  {q \in 1..Len(qs) : qs[q].product_id = p /\ qs[q].usage = "internal"}

\* the sum of a field over the quants q <= n that lie in S
RECURSIVE SumOver(_, _, _, _)
SumOver(S, qs, field, n) ==
  IF n = 0 THEN 0
  ELSE SumOver(S, qs, field, n - 1) + (IF n \in S THEN qs[n][field] ELSE 0)

AvailableOf(qs, p) ==
  LET iq == InternalQuants(qs, p)
  IN  SumOver(iq, qs, "quantity", Len(qs)) - SumOver(iq, qs, "reserved_quantity", Len(qs))

Positions(s, e) == {k \in 1..Len(s) : s[k] = e}
NoDuplicates(s) == Cardinality(Range(s)) = Len(s)

RECURSIVE Flatten(_)
Flatten(ss) == IF ss = <<>> THEN <<>> ELSE Head(ss) \o Flatten(Tail(ss))

\* the ERP state, committed and in the transaction, is the one the run started from
ERPUntouched ==
  /\ db = db0
  /\ moves = StartMoves
  /\ quants = StartQuants

(***************************************************************************)
(* C1: with the flag true and N pickings, a run without ERP errors invokes *)
(* the release exactly ceil(N/100) times, each invocation on 1 to 100      *)
(* pickings, and commits exactly once, after the last release and never    *)
(* between two batches.                                                    *)
(***************************************************************************)
C1_ReleaseCountAndSingleCommit ==
  /\ \A k \in 1..Len(released) : Len(released[k]) >= 1 /\ Len(released[k]) <= 100
  /\ Cardinality(Positions(log, "commit")) <= 1
  /\ \A c \in Positions(log, "commit") : \A r \in Positions(log, "release") : r < c
  /\ pc \in {"Reporting", "ReportedAfter"} =>
       /\ DO_UNRESERVE
       /\ Len(released) = CeilDiv(Cardinality(ChosenPickings), 100)
       /\ Range(Flatten(released)) = ChosenPickings
       /\ Cardinality(Positions(log, "release")) = Len(released)
       /\ Cardinality(Positions(log, "commit")) = 1

C1_Witness ==
  /\ pc = "ReportedAfter"
  /\ Cardinality(ChosenPickings) = 201
  /\ Len(released) = 3
  /\ Len(released[3]) = 1

(***************************************************************************)
(* C2: with the flag false the release is never invoked, nothing is        *)
(* committed, no After report is produced and the ERP state at the end of  *)
(* the run is the state at its start.                                      *)
(***************************************************************************)
C2_DryRunChangesNothing ==
  ~DO_UNRESERVE =>
    /\ released = <<>>
    /\ progress = <<>>
    /\ Positions(log, "release") = {}
    /\ Positions(log, "commit") = {}
    /\ Positions(log, "after") = {}
    /\ after_report = <<>>
    /\ ERPUntouched
    /\ pc \notin {"Executing", "Reporting", "ReportedAfter", "Halted"}

C2_Witness ==
  /\ ~DO_UNRESERVE
  /\ pc = "AwaitingApproval"
  /\ Cardinality(ChosenPickings) >= 100
  /\ \E m \in Range(stuck_moves) : moves[m].reserved > 0

(***************************************************************************)
(* C3: when the release fails on batch k the run halts there: batches      *)
(* 1..k-1 are the only ones released, nothing is committed, no After       *)
(* report is produced and the committed reservation state is the one from  *)
(* before the run.                                                         *)
(***************************************************************************)
C3_FailedBatchHaltsWithoutCommit ==
  /\ fail_at >= 1 => Len(released) < fail_at
  /\ \A e \in Positions(log, "error") : e = Len(log) /\ pc = "Halted"
  /\ pc = "Halted" =>
       /\ Len(released) = fail_at - 1
       /\ i = 100 * (fail_at - 1)
       /\ Positions(log, "commit") = {}
       /\ Positions(log, "after") = {}
       /\ after_report = <<>>
       /\ db = db0

C3_Witness ==
  /\ pc = "Halted"
  /\ fail_at = 2
  /\ Len(released) = 1
  /\ moves # StartMoves
  /\ db = db0

(***************************************************************************)
(* C4: the release changes the reservation of the moves chosen by the      *)
(* Selector only: a move the Selector does not choose keeps its            *)
(* reservation, also when it shares its picking with a chosen move.        *)
(***************************************************************************)
C4_UnchosenMovesKeepReservation ==
  LET chosen == Chosen
  IN  \A m \in 1..Len(moves) :
        m \notin chosen => moves[m].reserved = StartMoves[m].reserved

(***************************************************************************)
(* C5: the Selector returns exactly the moves whose status is assigned,    *)
(* confirmed, waiting or partially_available, whose date is strictly       *)
(* before the cutoff and which have a sales-order-line link, and it        *)
(* changes nothing.                                                        *)
(***************************************************************************)
C5_SelectorExact ==
  /\ pc # "Selecting" =>
       /\ Range(stuck_moves) = Chosen
       /\ NoDuplicates(stuck_moves)
       /\ \A m \in 1..Len(StartMoves) :
            \/ StartMoves[m].state \in {"done", "draft", "cancel"}
            \/ StartMoves[m].date >= 20240101
            \/ StartMoves[m].sale_line_id = 0
            => m \notin Range(stuck_moves)
  /\ pc = "Snapshotting" => ERPUntouched

C5_Witness ==
  /\ pc = "Snapshotting"
  /\ Len(stuck_moves) = 1
  /\ \E m \in 1..Len(moves) :
       /\ m \notin Range(stuck_moves)
       /\ moves[m].state = "waiting"
       /\ moves[m].date = 20240101
       /\ moves[m].sale_line_id # 0

(***************************************************************************)
(* C6: a run goes Selecting -> ReportedBefore; then with the flag false it *)
(* stops in AwaitingApproval, otherwise it goes through Executing and ends *)
(* in ReportedAfter.  Without ERP errors it ends in one of these two       *)
(* terminal states; the Before report precedes every release and the After *)
(* report follows the commit.                                              *)
(***************************************************************************)
Phase ==
  CASE pc \in {"Selecting", "Snapshotting"} -> "Selecting"
    [] pc \in {"Executing", "Reporting"}    -> "Executing"
    [] OTHER                                -> pc

PhaseStep ==
  \/ Phase' = Phase
  \/ Phase = "Selecting" /\ Phase' = "ReportedBefore"
  \/ Phase = "ReportedBefore" /\ ~DO_UNRESERVE /\ Phase' = "AwaitingApproval"
  \/ Phase = "ReportedBefore" /\ DO_UNRESERVE /\ Phase' = "Executing"
  \/ Phase = "Executing" /\ Phase' = "ReportedAfter"
  \/ Phase = "Executing" /\ fail_at # 0 /\ Phase' = "Halted"

TerminalStep ==
  (Phase = "AwaitingApproval" \/ Phase = "ReportedAfter") => vars' = vars

ReportOrder ==
  /\ \A r \in Positions(log, "release") : \E b \in Positions(log, "before") : b < r
  /\ \A a \in Positions(log, "after") : \E c \in Positions(log, "commit") : c < a
  /\ Phase = "Selecting" <=> Positions(log, "before") = {}
  /\ Phase = "ReportedAfter" <=> Positions(log, "after") # {}

C6_PhaseOrder ==
  /\ [][PhaseStep]_vars
  /\ [][TerminalStep]_vars
  /\ []ReportOrder
  /\ (fail_at = 0 /\ ~DO_UNRESERVE) => <>[](Phase = "AwaitingApproval")
  /\ (fail_at = 0 /\ DO_UNRESERVE) => <>[](Phase = "ReportedAfter")

C6_Witness ==
  /\ pc = "ReportedAfter"
  /\ log = <<"select", "before", "release", "release", "commit", "after">>

(***************************************************************************)
(* C7: the After report has one row per product of the Before snapshot, in *)
(* the same order, and the delta of a row is the product's available       *)
(* quantity recomputed after the release minus the one stored before.      *)
(***************************************************************************)
C7_AfterReportDeltas ==
  /\ Len(after_report) <= Len(before_state)
  /\ pc = "ReportedAfter" =>
       /\ Len(after_report) = Len(before_state)
       /\ \A k \in 1..Len(after_report) :
            /\ after_report[k].prod_id = before_state[k].prod_id
            /\ after_report[k].delta =
                 AvailableOf(quants, before_state[k].prod_id) - before_state[k].available
            /\ after_report[k].delta =
                 AvailableOf(db.quants, before_state[k].prod_id)
                   - AvailableOf(StartQuants, before_state[k].prod_id)

C7_Witness ==
  /\ pc = "ReportedAfter"
  /\ Len(after_report) = 2
  /\ after_report[1].delta = 1
  /\ after_report[2].delta = 0
  /\ quants # StartQuants

(***************************************************************************)
(* C8: for every reported product the Before snapshot records on_hand and  *)
(* reserved as the sums over exactly the product's quants in internal      *)
(* locations, available = on_hand - reserved, and stuck_moves as the       *)
(* number of selected moves of the product; without such quants the three  *)
(* quantities are 0.                                                       *)
(***************************************************************************)
C8_BeforeSnapshotValues ==
  LET chosen == Chosen
  IN  \A k \in 1..Len(before_state) :
        LET e  == before_state[k]
            iq == InternalQuants(StartQuants, e.prod_id)
        IN  /\ e.on_hand = SumOver(iq, StartQuants, "quantity", Len(StartQuants))
            /\ e.reserved = SumOver(iq, StartQuants, "reserved_quantity", Len(StartQuants))
            /\ e.available = e.on_hand - e.reserved
            /\ e.stuck_moves =
                 Cardinality({m \in chosen : StartMoves[m].product_id = e.prod_id})
            /\ iq = {} => e.on_hand = 0 /\ e.reserved = 0 /\ e.available = 0

C8_Witness ==
  /\ pc = "ReportedBefore"
  /\ Len(before_state) = 2
  /\ before_state[1].stuck_moves = 1
  /\ Cardinality(InternalQuants(StartQuants, before_state[1].prod_id)) = 2
  /\ before_state[1].on_hand = 9
  /\ before_state[1].reserved = 4
  /\ InternalQuants(StartQuants, before_state[2].prod_id) = {}
  /\ before_state[2].available = 0
  /\ \E q \in 1..Len(quants) : quants[q].product_id = before_state[2].prod_id

(***************************************************************************)
(* C9: the Before snapshot holds min(20, P) entries, P being the number of *)
(* distinct products of the selected moves, each entry a distinct product  *)
(* of a selected move; the After report has at most 20 rows.               *)
(***************************************************************************)
C9_AtMostTwentyProducts ==
  /\ Len(before_state) <= 20
  /\ Len(after_report) <= 20
  /\ pc \notin {"Selecting", "Snapshotting"} =>
       LET affected == ChosenProducts
       IN  /\ Len(before_state) = Min(20, Cardinality(affected))
           /\ NoDuplicates([k \in 1..Len(before_state) |-> before_state[k].prod_id])
           /\ \A k \in 1..Len(before_state) : before_state[k].prod_id \in affected

C9_Witness ==
  /\ pc = "ReportedAfter"
  /\ Cardinality(ChosenProducts) = 21
  /\ Len(before_state) = 20
  /\ Len(after_report) = 20

(***************************************************************************)
(* C10: the batches partition the picking collection: batch j is the       *)
(* slice [100*j, min(100*(j+1), N)) in collection order, every picking of  *)
(* a selected move is released exactly once, and the progress printed      *)
(* after batch j is min(100*(j+1), N), ending at N.                        *)
(***************************************************************************)
C10_BatchesPartitionPickings ==
  LET derived == ChosenPickings
      N       == Cardinality(derived)
      done    == Flatten(released)
  IN  /\ \A j \in 1..Len(released) :
           /\ released[j] = SubSeq(pickings, 100 * (j - 1) + 1, Min(100 * j, N))
           /\ progress[j] = Min(100 * j, N)
           /\ j > 1 => progress[j] > progress[j - 1]
      /\ Len(progress) = Len(released)
      /\ NoDuplicates(done)
      /\ Range(done) \subseteq derived
      /\ pc \in {"Reporting", "ReportedAfter"} =>
           /\ Range(done) = derived
           /\ done = pickings
           /\ N > 0 => progress[Len(progress)] = N

C10_Witness ==
  /\ pc = "Reporting"
  /\ Len(released) = 2
  /\ progress = <<100, 200>>
  /\ moves[1].picking_id = moves[Len(moves)].picking_id
  /\ {1, Len(moves)} \subseteq Range(stuck_moves)

====
